---------------------------- MODULE Spec2Model ----------------------------
(***************************************************************************)
(* Chunked upload protocol of src/main.py: start_upload, upload_chunk      *)
(* (save_chunk) and complete_upload (assemble_file), over the in-memory    *)
(* session table upload_sessions, the chunk scratch directory CHUNK_DIR    *)
(* and the per-guest folders under UPLOAD_DIR.                             *)
(*                                                                         *)
(* Scheduling: every handler is an `async def` run on one asyncio event    *)
(* loop.  A coroutine is interleaved with others only where it suspends.   *)
(* upload_chunk suspends once, at `await file.read()` (line 165);          *)
(* save_chunk and assemble_file contain no suspending await, so the rest   *)
(* of upload_chunk, and the whole of start_upload and complete_upload,     *)
(* run as one step each.                                                   *)
(*                                                                         *)
(* Encodings.  A text is a sequence of one-character strings.  Bytes are   *)
(* sequences of integers 0..255.  A gzip stream is the two magic bytes     *)
(* followed by the members' payload (header fields, deflate coding and the *)
(* trailer are abstracted to the payload itself).  A path below CHUNK_DIR  *)
(* is <<upload_id, chunk file name>>; a path below UPLOAD_DIR is           *)
(* <<folder, file name>>, with folder <<>> for UPLOAD_DIR itself.          *)
(* The field created_at is written but never read and is left out.         *)
(*                                                                         *)
(* The file system does what it is asked: writes, makedirs and rmtree do   *)
(* not fail for want of space or permission, so the `except` of            *)
(* upload_chunk (lines 167-168) is never entered.  The file names and the   *)
(* guest names of the inputs are such that no destination file bears the   *)
(* name of a folder; the one open() that fails is that of an empty base    *)
(* name, which names the guest folder itself.                              *)
(***************************************************************************)
EXTENDS Integers, Sequences, FiniteSets, TLC

\* ------------------------------------------------------------------ bounds
MaxIds == 1
MaxChunks == 2
MaxUploads == 3
MaxPending == 2

\* ------------------------------------------------------- program constants
CHUNK_SIZE == 5242880

ALLOWED_EXTENSIONS ==
    [image |-> {<<"j","p","g">>, <<"j","p","e","g">>, <<"p","n","g">>,
                <<"g","i","f">>, <<"w","e","b","p">>},
     video |-> {<<"m","p","4">>, <<"w","e","b","m">>, <<"m","o","v">>,
                <<"a","v","i">>}]

\* ---------------------------------------------------------------- inputs
\* upload ids: 1..MaxIds are the values uuid4 returns, 0 is a string a client
\* made up and uuid4 never returns
ForgedIds == {0}
UuidIds == 1..MaxIds
AllIds == ForgedIds \cup UuidIds

Indices == 0..MaxChunks
Totals == 0..MaxChunks

\* the total_chunks field of a chunk request, which save_chunk reads only
\* when it creates the session
UploadTotals == {MaxChunks}

GZIP_MAGIC == <<31, 139>>

\* gzip.compress, as far as the model keeps it
Gzip(data) == GZIP_MAGIC \o data

\* chunk payloads a client sends: two gzip streams and their raw bytes
Payloads == {Gzip(<<7>>), Gzip(<<8>>), <<7>>}

\* "t.jpg", "e.exe", and "d/", whose base name is empty
Filenames == {<<"t",".","j","p","g">>, <<"e",".","e","x","e">>, <<"d","/">>}
\* "J D", and "../", which sanitizes to the empty string
Guests == {<<"J"," ","D">>, <<".",".","/">>}

\* ------------------------------------------------------------ text helpers
WordChars == {"J", "D", "d", "t", "j", "p", "g", "e", "x", "c", "_",
              "0", "1", "2", "3", "4", "5", "6", "7", "8", "9"}
SpaceChars == {" "}

RECURSIVE Filter(_, _)
Filter(s, keep) ==
    IF s = <<>> THEN <<>>
    ELSE IF Head(s) \in keep THEN <<Head(s)>> \o Filter(Tail(s), keep)
         ELSE Filter(Tail(s), keep)

RECURSIVE LStrip(_)
LStrip(s) ==
    IF s # <<>> /\ Head(s) \in SpaceChars THEN LStrip(Tail(s)) ELSE s

RECURSIVE RStrip(_)
RStrip(s) ==
    IF s # <<>> /\ s[Len(s)] \in SpaceChars
    THEN RStrip(SubSeq(s, 1, Len(s) - 1)) ELSE s

\* str.strip()
Strip(s) == RStrip(LStrip(s))

\* re.sub(r'[\s-]+', '_', s): every maximal run of whitespace and hyphens
\* becomes one underscore
RECURSIVE CollapseRuns(_, _)
CollapseRuns(s, inRun) ==
    IF s = <<>> THEN <<>>
    ELSE IF Head(s) \in SpaceChars \cup {"-"}
         THEN (IF inRun THEN <<>> ELSE <<"_">>) \o CollapseRuns(Tail(s), TRUE)
         ELSE <<Head(s)>> \o CollapseRuns(Tail(s), FALSE)

sanitize_filename(name) ==
    CollapseRuns(Strip(Filter(name, WordChars \cup SpaceChars \cup {"-"})), FALSE)

\* index of the last occurrence of c in s, 0 when there is none
RECURSIVE LastIndexOf(_, _, _)
LastIndexOf(s, c, i) ==
    IF i = 0 THEN 0
    ELSE IF s[i] = c THEN i ELSE LastIndexOf(s, c, i - 1)

\* os.path.basename
Basename(path) ==
    SubSeq(path, LastIndexOf(path, "/", Len(path)) + 1, Len(path))

UpperToLower == [c \in {"J", "D"} |-> IF c = "J" THEN "j" ELSE "d"]

\* str.lower()
Lower(s) ==
    [i \in 1..Len(s) |-> IF s[i] \in DOMAIN UpperToLower
                         THEN UpperToLower[s[i]] ELSE s[i]]

\* Path(filename).suffix: from the last dot of the final component, unless
\* that dot leads or ends the name
Suffix(filename) ==
    LET name == Basename(filename)
        dot == LastIndexOf(name, ".", Len(name))
    IN IF dot > 1 /\ dot < Len(name) THEN SubSeq(name, dot, Len(name))
       ELSE <<>>

get_file_extension(filename) ==
    LET suffix == Suffix(filename)
    IN Lower(SubSeq(suffix, 2, Len(suffix)))

is_allowed_file(filename) ==
    \E category \in DOMAIN ALLOWED_EXTENSIONS :
        get_file_extension(filename) \in ALLOWED_EXTENSIONS[category]


\* ------------------------------------------------------------- gzip, paths
\* gzip.open(chunk_path, 'rb') read to the end (copyfileobj): an empty file
\* reads as no bytes, a file that starts with the magic bytes decompresses to
\* its payload, anything else raises BadGzipFile
gzip_read(bytes) ==
    IF bytes = <<>> THEN [ok |-> TRUE, data |-> <<>>]
    ELSE IF Len(bytes) >= 2 /\ SubSeq(bytes, 1, 2) = GZIP_MAGIC
         THEN [ok |-> TRUE, data |-> SubSeq(bytes, 3, Len(bytes))]
         ELSE [ok |-> FALSE, data |-> <<>>]

\* f"chunk_{chunk_index:05d}.gz", one name per index
ChunkFileName(chunk_index) == <<"chunk_", chunk_index, ".gz">>

get_chunk_path(upload_id, chunk_index) ==
    <<upload_id, ChunkFileName(chunk_index)>>

\* range(total_chunks)
ChunkRange(total_chunks) == 0..(total_chunks - 1)

\* ------------------------------------------------------------ map helpers
EmptyMap == [k \in {} |-> 0]
Put(f, k, v) == [x \in DOMAIN f \cup {k} |-> IF x = k THEN v ELSE f[x]]
Drop(f, ks) == [x \in DOMAIN f \ ks |-> f[x]]

\* ------------------------------------------------------------------ state
VARIABLES
    upload_sessions,  \* upload id -> session record (line 32)
    chunk_dirs,       \* upload ids whose directory exists below CHUNK_DIR
    chunk_files,      \* path below CHUNK_DIR -> bytes of the chunk file
    guest_dirs,       \* folders that exist below UPLOAD_DIR (<<>>: itself)
    final_files,      \* path below UPLOAD_DIR -> bytes of the file
    issued,           \* the ids uuid4 has returned
    pending,          \* upload_chunk requests suspended at file.read()
    resp,             \* the response of the handler that returned last
    n_uploads,        \* upload_chunk requests received so far
    assembled         \* history: ids whose assembly opened final_path

vars == <<upload_sessions, chunk_dirs, chunk_files, guest_dirs, final_files,
          issued, pending, resp, n_uploads, assembled>>

Init ==
    /\ upload_sessions = EmptyMap
    /\ chunk_dirs = {}
    /\ chunk_files = EmptyMap
    /\ guest_dirs = {<<>>}
    /\ final_files = EmptyMap
    /\ issued = {}
    /\ pending = {}
    /\ resp = [op |-> "none"]
    /\ n_uploads = 0
    /\ assembled = {}

\* ------------------------------------------------------------ start_upload
\* uuid.uuid4(): a value it has not returned before; ids are opaque, so the
\* least unused one stands for any of them
Uuid4 == Cardinality(issued) + 1

\* lines 139-160: no argument is examined; the session is entered as given
start_upload(filename, total_chunks, guest) ==
    /\ LET upload_id == Uuid4
       IN /\ issued' = issued \cup {upload_id}
          /\ upload_sessions' =
                Put(upload_sessions, upload_id,
                    [filename |-> filename,
                     total_chunks |-> total_chunks,
                     received_chunks |-> {},
                     guest |-> guest])
          /\ resp' = [op |-> "start", upload_id |-> upload_id,
                      status_code |-> 200, chunk_size |-> CHUNK_SIZE]
    /\ UNCHANGED <<chunk_dirs, chunk_files, guest_dirs, final_files, pending,
                   n_uploads, assembled>>

\* ------------------------------------------------------------ upload_chunk
\* lines 164-165: the request is received and its body read; the handler
\* suspends here, so requests received together are in flight together
upload_chunk_read(upload_id, chunk_index, total_chunks, chunk_data) ==
    LET req == [upload_id |-> upload_id, chunk_index |-> chunk_index,
                total_chunks |-> total_chunks, chunk_data |-> chunk_data]
    IN /\ n_uploads < MaxUploads
       /\ Cardinality(pending) < MaxPending
       /\ req \notin pending
       /\ pending' = pending \cup {req}
       /\ n_uploads' = n_uploads + 1
       /\ UNCHANGED <<upload_sessions, chunk_dirs, chunk_files, guest_dirs,
                      final_files, issued, resp, assembled>>

\* lines 49-57: create the session when the id is unknown, add the index
RecordChunkLost(sessions, upload_id, chunk_index, total_chunks) ==
    LET known == IF upload_id \in DOMAIN sessions THEN sessions[upload_id]
                 ELSE [total_chunks |-> total_chunks, received_chunks |-> {}]
    IN Put(sessions, upload_id,
           [known EXCEPT !.received_chunks = {chunk_index}])

\* received_chunks kept as a list: a repeated index is entered again (the
\* second entry of index i is written -(i + 1))
RecordChunkAppend(sessions, upload_id, chunk_index, total_chunks) ==
    LET known == IF upload_id \in DOMAIN sessions THEN sessions[upload_id]
                 ELSE [total_chunks |-> total_chunks, received_chunks |-> {}]
        entry == IF chunk_index \in known.received_chunks
                 THEN 0 - (chunk_index + 1) ELSE chunk_index
    IN Put(sessions, upload_id,
           [known EXCEPT !.received_chunks = @ \cup {entry}])

RecordChunk(sessions, upload_id, chunk_index, total_chunks) ==
    LET known == IF upload_id \in DOMAIN sessions THEN sessions[upload_id]
                 ELSE [total_chunks |-> total_chunks, received_chunks |-> {}]
    IN Put(sessions, upload_id,
           [known EXCEPT !.received_chunks = @ \cup {chunk_index}])

\* a chunk file that exists is left as it is
WriteChunkOnce(files, path, chunk_data) ==
    IF path \in DOMAIN files THEN files ELSE Put(files, path, chunk_data)

\* lines 46-47: open(chunk_path, 'wb') truncates, then the bytes are written
WriteChunk(files, path, chunk_data) == Put(files, path, chunk_data)

\* lines 166, 38-67: save_chunk runs to its return without suspending
save_chunk(req) ==
    /\ req \in pending
    /\ pending' = pending \ {req}
    /\ chunk_dirs' = chunk_dirs \cup {req.upload_id}
    /\ chunk_files' = WriteChunk(chunk_files,
                                 get_chunk_path(req.upload_id, req.chunk_index),
                                 req.chunk_data)
    /\ upload_sessions' = RecordChunk(upload_sessions, req.upload_id,
                                      req.chunk_index, req.total_chunks)
    /\ resp' = [op |-> "chunk", upload_id |-> req.upload_id,
                status_code |-> 200, chunk |-> req.chunk_index,
                received |->
                    Cardinality(upload_sessions'[req.upload_id].received_chunks),
                total |-> upload_sessions'[req.upload_id].total_chunks]
    /\ UNCHANGED <<guest_dirs, final_files, issued, n_uploads, assembled>>


\* --------------------------------------------------------- complete_upload
\* shutil.rmtree(chunk_dir, ignore_errors=True), on the files and on the
\* directories below CHUNK_DIR
RmtreeFilesNothing(files, upload_id) == files

RmtreeFiles(files, upload_id) ==
    Drop(files, {path \in DOMAIN files : path[1] = upload_id})

RmtreeDirs(dirs, upload_id) == dirs \ {upload_id}

\* upload_sessions.pop(upload_id, None)
SessionsPopNothing(sessions, upload_id) == sessions

SessionsPop(sessions, upload_id) == Drop(sessions, {upload_id})

\* lines 79-80: the indices of range(total_chunks) with no chunk file
MissingChunks(upload_id, total_chunks) ==
    {i \in ChunkRange(total_chunks) :
        get_chunk_path(upload_id, i) \notin DOMAIN chunk_files}

Min(S) == CHOOSE x \in S : \A y \in S : x <= y
Max(S) == CHOOSE x \in S : \A y \in S : x >= y

RECURSIVE CopyChunksDescending(_, _)
CopyChunksDescending(upload_id, todo) ==
    IF todo = {} THEN [ok |-> TRUE, data |-> <<>>]
    ELSE LET i == Max(todo)
             infile == gzip_read(chunk_files[get_chunk_path(upload_id, i)])
         IN IF ~infile.ok THEN [ok |-> FALSE, data |-> <<>>]
            ELSE LET rest == CopyChunksDescending(upload_id, todo \ {i})
                 IN [ok |-> rest.ok, data |-> infile.data \o rest.data]

\* lines 98-101: the chunks of `todo` in ascending index order, each read
\* through gzip and appended; the first chunk that is no gzip stream raises,
\* and `data` is then what the chunks before it have put into the file
RECURSIVE CopyChunks(_, _)
CopyChunks(upload_id, todo) ==
    IF todo = {} THEN [ok |-> TRUE, data |-> <<>>]
    ELSE LET i == Min(todo)
             infile == gzip_read(chunk_files[get_chunk_path(upload_id, i)])
         IN IF ~infile.ok THEN [ok |-> FALSE, data |-> <<>>]
            ELSE LET rest == CopyChunks(upload_id, todo \ {i})
                 IN [ok |-> rest.ok, data |-> infile.data \o rest.data]

\* the output is opened for appending
WriteFinalAppend(files, path, data) ==
    IF path \in DOMAIN files THEN Put(files, path, files[path] \o data)
    ELSE Put(files, path, data)

\* lines 97-101: open(final_path, 'wb') truncates what is there, the chunks
\* are copied in
WriteFinal(files, path, data) == Put(files, path, data)

\* the partial output is left where it is
RemovePartialNothing(files, path) == files

\* lines 103-104: if os.path.exists(final_path): os.remove(final_path)
RemovePartial(files, path) == Drop(files, {path})

\* assemble_file, lines 69-115, for an id that is in upload_sessions (the
\* caller has checked it, and nothing runs in between): what it raises or
\* returns and the state it leaves
assemble_file(upload_id, original_filename, guest) ==
    LET session == upload_sessions[upload_id]
        total_chunks == session.total_chunks
        missing_chunks == MissingChunks(upload_id, total_chunks)
        guest_dir == sanitize_filename(guest)
        final_path == <<guest_dir, Basename(original_filename)>>
        copied == CopyChunks(upload_id, ChunkRange(total_chunks))
        unchanged == [sessions |-> upload_sessions, chunk_dirs |-> chunk_dirs,
                      chunk_files |-> chunk_files, guest_dirs |-> guest_dirs,
                      final_files |-> final_files, opened |-> FALSE,
                      missing |-> {}, path |-> final_path, size |-> 0]
        cleaned == [unchanged EXCEPT
                      !.guest_dirs = guest_dirs \cup {guest_dir},
                      !.chunk_files = RmtreeFiles(chunk_files, upload_id),
                      !.chunk_dirs = RmtreeDirs(chunk_dirs, upload_id),
                      !.sessions = SessionsPop(upload_sessions, upload_id)]
    IN IF missing_chunks # {}
       THEN \* lines 82-86, raised before the try: nothing is cleaned here
            [unchanged EXCEPT !.missing = missing_chunks] @@
            [raised |-> TRUE, status_code |-> 400, detail |-> "Missing chunks"]
       ELSE IF Basename(original_filename) = <<>>
       THEN \* final_path is guest_dir itself: open raises, and so does
            \* os.remove in the handler; the finally clause still runs
            cleaned @@
            [raised |-> TRUE, status_code |-> 500, detail |-> "IsADirectoryError"]
       ELSE IF ~copied.ok
       THEN \* lines 102-105: final_path, truncated by open, is removed
            [cleaned EXCEPT
                !.final_files =
                    RemovePartial(WriteFinal(final_files, final_path, copied.data),
                                  final_path),
                !.opened = TRUE] @@
            [raised |-> TRUE, status_code |-> 500,
             detail |-> "Error assembling file"]
       ELSE [cleaned EXCEPT
                !.final_files = WriteFinal(final_files, final_path, copied.data),
                            !.opened = TRUE,
                            !.size = Len(copied.data)] @@
            [raised |-> FALSE, status_code |-> 200, detail |-> "complete"]

\* the fields are read with defaults
StartFieldsDefault(session) ==
    [ok |-> TRUE,
     filename |-> IF "filename" \in DOMAIN session THEN session.filename
                  ELSE <<"f">>,
     guest |-> IF "guest" \in DOMAIN session THEN session.guest ELSE <<"g">>]

\* lines 180-181: session['filename'] and session['guest']; a key that is
\* not there raises KeyError
StartFields(session) ==
    IF {"filename", "guest"} \subseteq DOMAIN session
    THEN [ok |-> TRUE, filename |-> session.filename, guest |-> session.guest]
    ELSE [ok |-> FALSE, filename |-> <<>>, guest |-> <<>>]

complete_upload(upload_id) ==
    IF upload_id \notin DOMAIN upload_sessions
    THEN \* lines 173-174
         /\ resp' = [op |-> "complete", upload_id |-> upload_id,
                     status_code |-> 404,
                     detail |-> "Upload session not found"]
         /\ UNCHANGED <<upload_sessions, chunk_dirs, chunk_files, guest_dirs,
                        final_files, issued, pending, n_uploads, assembled>>
    ELSE LET session == StartFields(upload_sessions[upload_id])
         IN IF ~session.ok
            THEN \* line 180: KeyError, for a session that save_chunk created;
                 \* lines 184-189 clean up and answer 500
                 /\ chunk_files' = RmtreeFiles(chunk_files, upload_id)
                 /\ chunk_dirs' = RmtreeDirs(chunk_dirs, upload_id)
                 /\ upload_sessions' = SessionsPop(upload_sessions, upload_id)
                 /\ resp' = [op |-> "complete", upload_id |-> upload_id,
                             status_code |-> 500, detail |-> "KeyError"]
                 /\ UNCHANGED <<guest_dirs, final_files, issued, pending,
                                n_uploads, assembled>>
            ELSE LET result == assemble_file(upload_id, session.filename,
                                             session.guest)
                 IN /\ guest_dirs' = result.guest_dirs
                    /\ final_files' = result.final_files
                    /\ assembled' = IF result.opened
                                    THEN assembled \cup {upload_id}
                                    ELSE assembled
                    /\ IF result.raised
                       THEN \* lines 184-189
                            /\ chunk_files' = RmtreeFiles(result.chunk_files, upload_id)
                            /\ chunk_dirs' = RmtreeDirs(result.chunk_dirs, upload_id)
                            /\ upload_sessions' = SessionsPop(result.sessions, upload_id)
                            /\ resp' = [op |-> "complete",
                                        upload_id |-> upload_id,
                                        status_code |-> 500,
                                        detail |-> result.detail,
                                        missing |-> result.missing]
                       ELSE /\ chunk_files' = result.chunk_files
                            /\ chunk_dirs' = result.chunk_dirs
                            /\ upload_sessions' = result.sessions
                            /\ resp' = [op |-> "complete",
                                        upload_id |-> upload_id,
                                        status_code |-> 200,
                                        detail |-> result.detail,
                                        path |-> result.path,
                                        size |-> result.size]
                    /\ UNCHANGED <<issued, pending, n_uploads>>

\* ---------------------------------------------------------- specification
Start ==
    /\ issued # UuidIds
    /\ \E filename \in Filenames, total_chunks \in Totals, guest \in Guests :
          start_upload(filename, total_chunks, guest)

UploadChunkRead ==
    \E upload_id \in issued \cup ForgedIds, chunk_index \in Indices,
       total_chunks \in UploadTotals, chunk_data \in Payloads :
        upload_chunk_read(upload_id, chunk_index, total_chunks, chunk_data)

SaveChunk == \E req \in pending : save_chunk(req)

Complete == \E upload_id \in issued \cup ForgedIds : complete_upload(upload_id)

Next == Start \/ UploadChunkRead \/ SaveChunk \/ Complete

Spec == Init /\ [][Next]_vars


\* ------------------------------------------------- vocabulary of the claims
IsSession(upload_id) == upload_id \in DOMAIN upload_sessions

\* a session that start_upload created: it holds a filename and a guest
StartedSession(upload_id) ==
    /\ IsSession(upload_id)
    /\ {"filename", "guest"} \subseteq DOMAIN upload_sessions[upload_id]

Received(upload_id) ==
    IF IsSession(upload_id) THEN upload_sessions[upload_id].received_chunks
    ELSE {}

\* the indices of the chunk files the chunk store holds for an id
StoredIndices(upload_id) ==
    {i \in Indices : get_chunk_path(upload_id, i) \in DOMAIN chunk_files}

StoredChunk(upload_id, i) == chunk_files[get_chunk_path(upload_id, i)]

HasChunkFiles(files, upload_id) ==
    \E path \in DOMAIN files : path[1] = upload_id

IsGzipStream(bytes) == Len(bytes) >= 2 /\ <<bytes[1], bytes[2]>> = <<31, 139>>

\* what a chunk stands for: the payload of a gzip stream, the bytes of a raw
\* chunk
ChunkContent(bytes) ==
    IF IsGzipStream(bytes) THEN [k \in 1..(Len(bytes) - 2) |-> bytes[k + 2]]
    ELSE bytes

\* the contents of the stored chunks lo..hi of an id, lowest index first
RECURSIVE ContentsInOrder(_, _, _)
ContentsInOrder(upload_id, lo, hi) ==
    IF lo > hi THEN <<>>
    ELSE ChunkContent(StoredChunk(upload_id, lo))
            \o ContentsInOrder(upload_id, lo + 1, hi)

\* <root>/<sanitized owner>/<filename> of a started session
Destination(upload_id) ==
    <<sanitize_filename(upload_sessions[upload_id].guest),
      Basename(upload_sessions[upload_id].filename)>>

\* the step is complete_upload(upload_id) and it answers 200 with the
\* destination file holding `content`
CompletesWith(upload_id, content) ==
    /\ resp'.op = "complete"
    /\ resp'.upload_id = upload_id
    /\ resp'.status_code = 200
    /\ Destination(upload_id) \in DOMAIN final_files'
    /\ final_files'[Destination(upload_id)] = content

\* -------------------------------------------------------------------- C1
\* C1 as stated: a started session with N >= 1 whose chunks 1..N were
\* uploaded completes successfully, and the destination file is the chunks'
\* contents in ascending index order.
C1_AsStated ==
    [][\A upload_id \in AllIds :
        (/\ StartedSession(upload_id)
         /\ upload_sessions[upload_id].total_chunks >= 1
         /\ Received(upload_id) = 1..upload_sessions[upload_id].total_chunks
         /\ StoredIndices(upload_id) = Received(upload_id)
         /\ complete_upload(upload_id))
        => CompletesWith(upload_id,
              ContentsInOrder(upload_id, 1,
                              upload_sessions[upload_id].total_chunks))]_vars

\* C1 amended: a started session with N >= 1 and a file name to write to,
\* whose chunks 0..N-1 were uploaded as gzip streams (in any arrival order),
\* completes successfully, and the file at
\* <root>/<sanitized owner>/<filename> is the decompressed chunks in
\* ascending index order.
C1_ZeroBased ==
    [][\A upload_id \in AllIds :
        (/\ StartedSession(upload_id)
         /\ upload_sessions[upload_id].total_chunks >= 1
         /\ Basename(upload_sessions[upload_id].filename) # <<>>
         /\ Received(upload_id) =
                0..(upload_sessions[upload_id].total_chunks - 1)
         /\ StoredIndices(upload_id) = Received(upload_id)
         /\ \A i \in StoredIndices(upload_id) :
                IsGzipStream(StoredChunk(upload_id, i))
         /\ complete_upload(upload_id))
        => CompletesWith(upload_id,
              ContentsInOrder(upload_id, 0,
                              upload_sessions[upload_id].total_chunks - 1))]_vars

\* two chunks with different contents were assembled, index 0 first
C1_Witness ==
    /\ resp.op = "complete"
    /\ resp.status_code = 200
    /\ resp.size = 2
    /\ resp.path = <<(<<"J", "_", "D">>), (<<"t", ".", "j", "p", "g">>)>>
    /\ final_files[resp.path] \in {<<7, 8>>, <<8, 7>>}


\* -------------------------------------------------------------------- C2
\* the indices of the session's range that the chunk store does not hold
StillMissing(upload_id) ==
    (0..(upload_sessions[upload_id].total_chunks - 1))
        \ StoredIndices(upload_id)

\* C2 as stated: complete on a started session with chunks missing fails,
\* lists exactly the missing indices, and leaves the session open: its
\* registry entry and the chunks uploaded so far stay.
C2_AsStated ==
    [][\A upload_id \in AllIds :
        (/\ StartedSession(upload_id)
         /\ StillMissing(upload_id) # {}
         /\ complete_upload(upload_id))
        => (/\ resp'.status_code # 200
            /\ resp'.missing = StillMissing(upload_id)
            /\ upload_id \in DOMAIN upload_sessions'
            /\ upload_sessions'[upload_id] = upload_sessions[upload_id]
            /\ chunk_files' = chunk_files)]_vars

\* -------------------------------------------------------------------- C3
\* C3: when complete_upload returns for an id that was in the registry,
\* with success or with an error, the registry has no entry for the id and
\* the chunk store has neither a directory nor a file for it.
C3_Purged ==
    [][\A upload_id \in AllIds :
        (IsSession(upload_id) /\ complete_upload(upload_id))
        => (/\ upload_id \notin DOMAIN upload_sessions'
            /\ upload_id \notin chunk_dirs'
            /\ ~HasChunkFiles(chunk_files', upload_id))]_vars

\* a complete that failed on missing chunks has returned, and a chunk of
\* another id is still stored
C3_Witness ==
    /\ resp.op = "complete"
    /\ resp.status_code = 500
    /\ resp.detail = "Missing chunks"
    /\ resp.missing = {1}
    /\ ~IsSession(resp.upload_id)
    /\ resp.upload_id \notin chunk_dirs
    /\ chunk_dirs # {}

\* -------------------------------------------------------------------- C4
\* C4: every upload_chunk request for a session answers 200 and adds its
\* index to the received set without dropping an index another request
\* added, whatever else is in flight; the count it returns is the size of
\* that set.
C4_NoLostUpdate ==
    [][\A req \in pending :
        (IsSession(req.upload_id) /\ save_chunk(req))
        => (/\ resp'.status_code = 200
            /\ pending' = pending \ {req}
            /\ upload_sessions'[req.upload_id].received_chunks =
                   Received(req.upload_id) \cup {req.chunk_index}
            /\ resp'.received =
                   Cardinality(Received(req.upload_id) \cup {req.chunk_index}))]_vars

\* two requests for distinct indices of one session have returned while a
\* third, received before the second returned, is still in flight
C4_Witness ==
    /\ resp.op = "chunk"
    /\ resp.status_code = 200
    /\ resp.received = 2
    /\ StartedSession(resp.upload_id)
    /\ \E req \in pending :
          /\ req.upload_id = resp.upload_id
          /\ req.chunk_index \notin Received(resp.upload_id)

\* -------------------------------------------------------------------- C5
\* C5 as stated: upload_chunk for an id that is not in the registry answers
\* not found and changes neither the registry nor the chunk store.
C5_AsStated ==
    [][\A req \in pending :
        (~IsSession(req.upload_id) /\ save_chunk(req))
        => (/\ resp'.status_code = 404
            /\ UNCHANGED <<upload_sessions, chunk_dirs, chunk_files>>)]_vars

\* -------------------------------------------------------------------- C6
\* C6 as stated: of two complete calls on one id at most one assembles; a
\* complete on an id that an earlier complete assembled observes the
\* session as not found and writes nothing.
C6_AsStated ==
    [][\A upload_id \in AllIds :
        (upload_id \in assembled /\ complete_upload(upload_id))
        => (/\ resp'.status_code = 404
            /\ UNCHANGED <<upload_sessions, chunk_dirs, chunk_files,
                           guest_dirs, final_files>>)]_vars

\* the part of C6 the code keeps: no id is assembled twice, and a later
\* complete on it leaves the destination files alone
C6_SingleAssembly ==
    [][\A upload_id \in AllIds :
        (upload_id \in assembled /\ complete_upload(upload_id))
        => (/\ resp'.status_code # 200
            /\ UNCHANGED <<assembled, final_files>>)]_vars

\* -------------------------------------------------------------------- C7
\* C7: an upload_chunk for an index the session has already recorded
\* leaves the received set, and so the received count, as they were, and
\* returns that count.
C7_Idempotent ==
    [][\A req \in pending :
        (/\ IsSession(req.upload_id)
         /\ req.chunk_index \in Received(req.upload_id)
         /\ save_chunk(req))
        => (/\ upload_sessions'[req.upload_id].received_chunks =
                   Received(req.upload_id)
            /\ resp'.received = Cardinality(Received(req.upload_id)))]_vars

\* index 0 was uploaded three times, with different bytes, and is counted once
C7_Witness ==
    /\ resp.op = "chunk"
    /\ resp.chunk = 0
    /\ resp.received = 1
    /\ n_uploads = 3
    /\ pending = {}
    /\ assembled = {}
    /\ StartedSession(resp.upload_id)
    /\ Received(resp.upload_id) = {0}
    /\ StoredIndices(resp.upload_id) = {0}
    /\ ~IsSession(0)

\* -------------------------------------------------------------------- C8
\* C8 as stated, for the sessions that declare at least one chunk: the
\* received set lies in the index range total_chunks gives (0-based or
\* 1-based), so the received count never exceeds total_chunks.
C8_AsStated ==
    \A upload_id \in DOMAIN upload_sessions :
        upload_sessions[upload_id].total_chunks >= 1
        => /\ Received(upload_id)
                 \subseteq 0..upload_sessions[upload_id].total_chunks
           /\ Cardinality(Received(upload_id))
                 <= upload_sessions[upload_id].total_chunks

\* -------------------------------------------------------------------- C9
\* C9 as stated: no session is in the registry whose filename has an
\* extension outside the allow-list.
C9_AsStated ==
    \A upload_id \in DOMAIN upload_sessions :
        StartedSession(upload_id)
            => is_allowed_file(upload_sessions[upload_id].filename)

\* ------------------------------------------------------------------- C10
\* C10 as stated: complete on a started session whose chunks are all stored
\* succeeds for every mix of raw and gzip chunks, with a raw chunk appended
\* as it is and a gzip chunk decompressed.
C10_AsStated ==
    [][\A upload_id \in AllIds :
        (/\ StartedSession(upload_id)
         /\ Basename(upload_sessions[upload_id].filename) # <<>>
         /\ StillMissing(upload_id) = {}
         /\ complete_upload(upload_id))
        => CompletesWith(upload_id,
              ContentsInOrder(upload_id, 0,
                              upload_sessions[upload_id].total_chunks - 1))]_vars

\* ------------------------------------------------------------------- C11
\* C11, as the specification states it: a session whose owner sanitizes to
\* the empty string is rejected, so no final file ever lies directly in the
\* upload root (the folder written <<>>).
C11_AsStated ==
    /\ \A upload_id \in DOMAIN upload_sessions :
          StartedSession(upload_id) =>
              sanitize_filename(upload_sessions[upload_id].guest) # <<>>
    /\ \A path \in DOMAIN final_files : path[1] # <<>>

\* ------------------------------------------------------------------- C12
\* C12, as the specification states it: complete never answers success for
\* an output of zero bytes, and no zero-byte output is left on disk.
C12_AsStated ==
    /\ (resp.op = "complete" /\ resp.status_code = 200) => resp.size > 0
    /\ \A path \in DOMAIN final_files : final_files[path] # <<>>

\* ------------------------------------------------------------------- C13
\* The event loop resumes an upload_chunk whose body has been read, so a
\* request in flight is served.  Nothing obliges a client to send a request:
\* start, upload_chunk and complete arrive or do not.
FairSpec == Spec /\ WF_vars(SaveChunk)

\* C13, as the specification states it: a started session does not stay for
\* ever; one that no call names again is in the end evicted, its registry
\* entry removed and its chunk directory purged.
C13_AsStated ==
    \A upload_id \in UuidIds :
        [](StartedSession(upload_id) =>
              <>(~IsSession(upload_id) /\ upload_id \notin chunk_dirs))

\* ------------------------------------------------------------------- C14
\* line 20; no line of the start, chunk or complete route reads it
MAX_FILE_SIZE == 1073741824

\* The code never looks at how many bytes a chunk or a file holds, so the
\* model's short payloads stand for payloads of any length.  Read here at the
\* scale of one modelled output byte for a block of just over half of
\* MAX_FILE_SIZE bytes, an output of two modelled bytes is a file larger than
\* the maximum.
BytesOf(size) == size * ((MAX_FILE_SIZE \div 2) + 1)

\* C14, as the specification states it: no complete succeeds with an output
\* larger than the fixed maximum.
C14_AsStated ==
    (resp.op = "complete" /\ resp.status_code = 200) =>
        BytesOf(resp.size) <= MAX_FILE_SIZE

\* ------------------------------------------------------------------- C15
\* C15, as the specification states it: an id that complete has assembled
\* and removed is finished for good; no later operation puts it back into
\* the registry or gives it a chunk directory.
C15_AsStated ==
    [][\A upload_id \in assembled :
          ~IsSession(upload_id) =>
              (~IsSession(upload_id)' /\ upload_id \notin chunk_dirs')]_vars

\* ------------------------------------------------------------------- C16
\* C16: a complete that fails leaves no output file.  When chunks are
\* missing the final files are what they were; when the assembly raises
\* while streaming, no file is left at the destination and the session and
\* its chunks are purged all the same; no failing complete adds a file.
C16_NoOutput ==
    [][\A upload_id \in AllIds :
        (/\ IsSession(upload_id)
         /\ complete_upload(upload_id)
         /\ resp'.status_code # 200)
        => (/\ DOMAIN final_files' \subseteq DOMAIN final_files
            /\ resp'.detail = "Missing chunks" => final_files' = final_files
            /\ resp'.detail = "Error assembling file" =>
                  /\ Destination(upload_id) \notin DOMAIN final_files'
                  /\ ~IsSession(upload_id)'
                  /\ upload_id \notin chunk_dirs'
                  /\ ~HasChunkFiles(chunk_files', upload_id))]_vars

\* a complete has failed while streaming, after it had opened the output,
\* and no final file is there
C16_Witness ==
    /\ resp.op = "complete"
    /\ resp.status_code = 500
    /\ resp.detail = "Error assembling file"
    /\ resp.upload_id \in assembled
    /\ DOMAIN final_files = {}
    /\ ~HasChunkFiles(chunk_files, resp.upload_id)

\* ------------------------------------------------------------------- C17
\* C17: a chunk written again for an index the session has already received
\* replaces the stored bytes and leaves the received set, and so the count,
\* as they were; and a complete that succeeds writes, at each index's
\* position, the bytes the chunk store holds for it, that is the latest.
C17_LastWriteWins ==
    [][/\ \A req \in pending :
            (/\ save_chunk(req)
             /\ req.chunk_index \in Received(req.upload_id))
            => (/\ StoredChunk(req.upload_id, req.chunk_index)' = req.chunk_data
                /\ Received(req.upload_id)' = Received(req.upload_id)
                /\ resp'.received = Cardinality(Received(req.upload_id)))
       /\ \A upload_id \in AllIds :
            (/\ StartedSession(upload_id)
             /\ complete_upload(upload_id)
             /\ resp'.status_code = 200)
            => final_files'[Destination(upload_id)] =
                  ContentsInOrder(upload_id, 0,
                      upload_sessions[upload_id].total_chunks - 1)]_vars

\* two uploads have been served, the session has received index 0 alone and
\* the store holds the second payload for it
C17_Witness ==
    /\ resp.op = "chunk"
    /\ resp.chunk = 0
    /\ resp.received = 1
    /\ n_uploads = 2
    /\ pending = {}
    /\ StartedSession(resp.upload_id)
    /\ Received(resp.upload_id) = {0}
    /\ StoredIndices(resp.upload_id) = {0}
    /\ StoredChunk(resp.upload_id, 0) = Gzip(<<8>>)
    /\ chunk_dirs = {resp.upload_id}
    /\ ~IsSession(0)

\* ------------------------------------------------------------------- C18
\* C18: whenever no upload_chunk is in flight (complete_upload never is, it
\* runs in one step), the received set of every id equals the set of chunk
\* files stored for it, and only ids in the registry own a chunk directory
\* or chunk files.
C18_RegistryMatchesDisk ==
    pending = {} =>
        /\ \A upload_id \in AllIds :
              Received(upload_id) = StoredIndices(upload_id)
        /\ chunk_dirs \subseteq DOMAIN upload_sessions
        /\ \A path \in DOMAIN chunk_files : path[1] \in chunk_dirs

\* nothing is in flight; a started session holds both of its chunks, and an
\* id that was never started holds one
C18_Witness ==
    /\ pending = {}
    /\ \E upload_id \in UuidIds :
          /\ StartedSession(upload_id)
          /\ Received(upload_id) = {0, 1}
          /\ StoredIndices(upload_id) = {0, 1}
    /\ \E upload_id \in ForgedIds :
          /\ IsSession(upload_id)
          /\ Cardinality(StoredIndices(upload_id)) = 1

\* ------------------------------------------------------------------- C19
\* C19: complete on a registry entry that upload_chunk created for an id
\* nobody started always fails: it answers 500, writes no final file, and
\* purges the entry and its chunks.
C19_ImplicitNeverCompletes ==
    [][\A upload_id \in AllIds :
        (/\ IsSession(upload_id)
         /\ ~StartedSession(upload_id)
         /\ complete_upload(upload_id))
        => (/\ resp'.status_code = 500
            /\ final_files' = final_files
            /\ guest_dirs' = guest_dirs
            /\ ~IsSession(upload_id)'
            /\ upload_id \notin chunk_dirs'
            /\ ~HasChunkFiles(chunk_files', upload_id))]_vars

\* complete has failed with KeyError on an entry that two uploads had made
\* for an id that was not started; nothing of it is left and no final file
\* was written
C19_Witness ==
    /\ resp.op = "complete"
    /\ resp.status_code = 500
    /\ resp.detail = "KeyError"
    /\ resp.upload_id \in ForgedIds
    /\ issued = {}
    /\ n_uploads = 2
    /\ pending = {}
    /\ upload_sessions = EmptyMap
    /\ chunk_dirs = {}
    /\ DOMAIN final_files = {}

\* ------------------------------------------------------------------- C20
\* Two sessions that write the same destination.  The inputs are narrowed to
\* what the collision needs: started sessions only, guests that sanitize to
\* the same folder, filenames with the same basename, gzip chunks.
MaxPairIds == 2

PairIds == 1..MaxPairIds

PairGuests == {<<"J", " ", "D">>, <<"J", "-", "D">>}

PairFilenames == {<<"t", ".", "j", "p", "g">>,
                  <<"d", "/", "t", ".", "j", "p", "g">>}

PairPayloads == {Gzip(<<7>>), Gzip(<<8>>)}

StartPair ==
    /\ issued # PairIds
    /\ \E filename \in PairFilenames, total_chunks \in 1..MaxChunks,
          guest \in PairGuests :
          start_upload(filename, total_chunks, guest)

UploadChunkReadPair ==
    \E upload_id \in issued, chunk_index \in ChunkRange(MaxChunks),
       total_chunks \in UploadTotals, chunk_data \in PairPayloads :
        upload_chunk_read(upload_id, chunk_index, total_chunks, chunk_data)

NextPair == StartPair \/ UploadChunkReadPair \/ SaveChunk \/ Complete

PairSpec == Init /\ [][NextPair]_vars

\* C20: when a complete succeeds for a session whose destination already
\* holds the output of another session, the destination then holds exactly
\* the content of the session completing now, nothing of what was there.
C20_LastCompleteWins ==
    [][\A upload_id \in PairIds :
        (/\ StartedSession(upload_id)
         /\ Destination(upload_id) \in DOMAIN final_files
         /\ complete_upload(upload_id)
         /\ resp'.status_code = 200)
        => (/\ final_files'[Destination(upload_id)] =
                  ContentsInOrder(upload_id, 0,
                      upload_sessions[upload_id].total_chunks - 1)
            /\ DOMAIN final_files' = DOMAIN final_files)]_vars

\* both sessions have been assembled into the one destination, the later
\* of them from a single chunk, and its byte is all the file holds
C20_Witness ==
    /\ assembled = PairIds
    /\ resp.op = "complete"
    /\ resp.status_code = 200
    /\ resp.size = 1
    /\ n_uploads = MaxUploads
    /\ upload_sessions = EmptyMap
    /\ DOMAIN final_files = {resp.path}
    /\ final_files[resp.path] = <<8>>

=============================================================================
